---- MODULE Spec2Model ----
(***************************************************************************)
(* MutationsInterpreter (dbms/src/Interpreters/MutationsInterpreter.cpp):  *)
(* staging of DELETE/UPDATE commands, forward propagation of the output    *)
(* column sets, backward construction of the expression chains, the        *)
(* stage-0 SELECT, the stream assembled for the later stages, and the      *)
(* count() pre-check isStorageTouchedByMutations.                          *)
(*                                                                         *)
(* Stages are kept in a sequence, so the stage the code calls stages[i]    *)
(* is stages[i + 1] here.                                                  *)
(***************************************************************************)
EXTENDS Integers, Sequences, FiniteSets, TLC

\* ------------------------------------------------------------------ bounds
\* longest command list given to the constructor
MaxCmds == 3
\* largest number of rows stored in the table
MaxRows == 2
\* number of values of the column type (UInt8 scaled down): values are 0..TypeModulus-1
TypeModulus == 2
\* prepare is not entered again once more than this many stages are left over
\* from calls that failed while staging
MaxStale == 3

\* ------------------------------------------------------------------ ASTs
\* One record shape for every AST node, so that any two nodes can be compared.
ASTIdentifier(n) == [node |-> "Identifier", name |-> n, value |-> 0, args |-> <<>>]
ASTLiteral(v) == [node |-> "Literal", name |-> "", value |-> v, args |-> <<>>]
\* a string literal (the type name given to CAST)
ASTStringLiteral(s) == [node |-> "Literal", name |-> s, value |-> 0, args |-> <<>>]
\* a subquery used as the right-hand side of IN; its rows come from SubqueryResult
ASTSubquery(n) == [node |-> "Subquery", name |-> n, value |-> 0, args |-> <<>>]
makeASTFunction(f, arguments) == [node |-> "Function", name |-> f, value |-> 0, args |-> arguments]
\* a null ASTPtr (command.predicate of a command without predicate)
NullAST == [node |-> "Null", name |-> "", value |-> 0, args |-> <<>>]

\* the set built from the subquery of an IN predicate
SubqueryResult(n) == IF n = "s1" THEN {1} ELSE {}

\* ------------------------------------------------------------------ storage
\* storage->getColumns().ordinary / .materialized / .getAllPhysical()
Ordinary == {"a", "b"}
Materialized == {"m"}
AllPhysical == Ordinary \cup Materialized
\* storage->getColumn(column).type->getName()
ColumnTypeName(c) == "UInt8"
\* number of values of the type with the given name (every column here is a UInt8)
ModulusOf(t) == TypeModulus
Values == 0 .. (TypeModulus - 1)
\* a stored row; the materialized column m was computed as a when the row was inserted
StoredRows == {r \in [AllPhysical -> Values] : r["m"] = r["a"]}
RECURSIVE SeqsUpTo(_, _)
SeqsUpTo(S, n) ==
    IF n = 0 THEN {<<>>}
    ELSE LET shorter == SeqsUpTo(S, n - 1)
         IN  shorter \cup {Append(s, e) : s \in {t \in shorter : Len(t) = n - 1}, e \in S}
Tables == SeqsUpTo(StoredRows, MaxRows)

\* ------------------------------------------------------------------ commands
\* MutationCommand: type, predicate, column_to_update_expression (a map, here the
\* set of its key/value pairs)
Assign(c, e) == [column |-> c, expr |-> e]
DeleteCmd(p) == [type |-> "DELETE", predicate |-> p, column_to_update_expression |-> {}]
UpdateCmd(p, kvs) == [type |-> "UPDATE", predicate |-> p, column_to_update_expression |-> kvs]
Equals(c, v) == makeASTFunction("equals", <<ASTIdentifier(c), ASTLiteral(v)>>)

\* DELETE WHERE a IN (SELECT 1)
D_a == DeleteCmd(makeASTFunction("in", <<ASTIdentifier("a"), ASTSubquery("s1")>>))
\* DELETE WHERE b = 1
D_b == DeleteCmd(Equals("b", 1))
\* UPDATE a = a + 1 WHERE b = 1
U_inc == UpdateCmd(Equals("b", 1),
            {Assign("a", makeASTFunction("plus", <<ASTIdentifier("a"), ASTLiteral(1)>>))})
\* UPDATE a = b, b = a WHERE a = 1
U_swap == UpdateCmd(Equals("a", 1),
            {Assign("a", ASTIdentifier("b")), Assign("b", ASTIdentifier("a"))})
\* UPDATE b = 1 WHERE a = 0
U_set == UpdateCmd(Equals("a", 0), {Assign("b", ASTLiteral(1))})
\* UPDATE m = 1 WHERE b = 1 (m is materialized)
U_mat == UpdateCmd(Equals("b", 1), {Assign("m", ASTLiteral(1))})
\* UPDATE z = 1 WHERE b = 1 (there is no column z)
U_missing == UpdateCmd(Equals("b", 1), {Assign("z", ASTLiteral(1))})
\* a command of a type that is neither DELETE nor UPDATE (MutationCommand::EMPTY)
X_other == [type |-> "EMPTY", predicate |-> NullAST, column_to_update_expression |-> {}]
\* DELETE without predicate
D_all == DeleteCmd(NullAST)

GoodCommands == {D_a, D_b, U_inc, U_swap, U_set}
BadCommands == {U_mat, U_missing, X_other, D_all}
CommandUniverse == GoodCommands \cup BadCommands
CommandLists == SeqsUpTo(CommandUniverse, MaxCmds)

\* ------------------------------------------------------------------ expressions
\* columns an AST reads (what ExpressionAnalyzer collects as required source columns)
RECURSIVE RequiredSourceColumns(_)
RequiredSourceColumns(ast) ==
    IF ast.node = "Identifier" THEN {ast.name}
    ELSE IF ast.node = "Function"
         THEN UNION {RequiredSourceColumns(ast.args[k]) : k \in 1 .. Len(ast.args)}
         ELSE {}

\* subqueries an AST needs as sets (ExpressionAnalyzer::getSubqueriesForSets)
RECURSIVE SubqueriesOf(_)
SubqueriesOf(ast) ==
    IF ast.node = "Subquery" THEN {ast.name}
    ELSE IF ast.node = "Function"
         THEN UNION {SubqueriesOf(ast.args[k]) : k \in 1 .. Len(ast.args)}
         ELSE {}

\* value of an expression on a row (cols: column name -> value)
RECURSIVE Eval(_, _)
Eval(ast, cols) ==
    IF ast.node = "Identifier" THEN cols[ast.name]
    ELSE IF ast.node = "Literal" THEN ast.value
    ELSE IF ast.name = "equals"
         THEN (IF Eval(ast.args[1], cols) = Eval(ast.args[2], cols) THEN 1 ELSE 0)
    ELSE IF ast.name = "in"
         THEN (IF Eval(ast.args[1], cols) \in SubqueryResult(ast.args[2].name) THEN 1 ELSE 0)
    ELSE IF ast.name = "not"
         THEN (IF Eval(ast.args[1], cols) = 0 THEN 1 ELSE 0)
    ELSE IF ast.name = "plus"
         THEN Eval(ast.args[1], cols) + Eval(ast.args[2], cols)
    ELSE IF ast.name = "if"
         THEN (IF Eval(ast.args[1], cols) # 0 THEN Eval(ast.args[2], cols)
               ELSE Eval(ast.args[3], cols))
    ELSE IF ast.name = "CAST"
         THEN Eval(ast.args[1], cols) % ModulusOf(ast.args[2].name)
    ELSE IF ast.name = "and"
         THEN (IF \A k \in 1 .. Len(ast.args) : Eval(ast.args[k], cols) # 0 THEN 1 ELSE 0)
    ELSE IF ast.name = "or"
         THEN (IF \E k \in 1 .. Len(ast.args) : Eval(ast.args[k], cols) # 0 THEN 1 ELSE 0)
    ELSE 0

\* ------------------------------------------------------------------ state
VARIABLES
    commands,           \* the command list given to the constructor
    is_prepared,        \* MutationsInterpreter::is_prepared
    stages,             \* MutationsInterpreter::stages
    interpreter_select, \* the stage-0 InterpreterSelectQuery
    pc,                 \* position inside validate / execute / prepare
    caller,             \* "validate" or "execute": the public method last entered
    dry_run,            \* the argument of the running prepare
    idx,                \* loop variable of the staging loop and of the backward loop
    error,              \* the exception that ended the last call ("" if none)
    stream,             \* the stream assembled by addStreamsForLaterStages (list of operators)
    header,             \* the header validate asked for
    storage_rows,       \* the rows the last storage read saw
    out_block,          \* what the consumer got by reading the stream returned by execute
    sets_in_dry_run,    \* whether the ExpressionAnalyzer registers subquery sets when
                        \* appendExpression is called with only_types = true
    touched             \* isStorageTouchedByMutations, when it was the last call made:
                        \* what it returned, the rows held by the storage, the WHERE of
                        \* its query and the block read from the query

vars == <<commands, is_prepared, stages, interpreter_select, pc, caller, dry_run, idx,
          error, stream, header, storage_rows, out_block, touched, sets_in_dry_run>>

\* a default-constructed Stage
EmptyStage ==
    [deletes |-> <<>>, update |-> <<>>, output_columns |-> {}, expressions_chain |-> <<>>,
     delete_filter_column_names |-> <<>>, subqueries_for_sets |-> {}]

\* interpreter_select before prepare has created it
NoSelect ==
    [created |-> FALSE, select_list |-> {}, where_expression |-> NullAST,
     dry_run |-> FALSE, executed |-> FALSE]

\* nothing was read yet
NoBlock == [columns |-> {}, aux |-> {}, rows |-> <<>>, status |-> "none"]
\* the read ended with the exception "Not found column ... in block"
FailedBlock == [columns |-> {}, aux |-> {}, rows |-> <<>>, status |-> "failed"]

NotAsked == [result |-> "none", rows |-> <<>>, where |-> NullAST, block |-> <<>>]

Init ==
    /\ commands \in CommandLists
    /\ is_prepared = FALSE
    /\ stages = <<>>
    /\ interpreter_select = NoSelect
    /\ pc = "idle"
    /\ caller = ""
    /\ dry_run = FALSE
    /\ idx = 0
    /\ error = ""
    /\ stream = <<>>
    /\ header = NoBlock
    /\ storage_rows = <<>>
    /\ out_block = NoBlock
    /\ touched = NotAsked
    /\ sets_in_dry_run \in BOOLEAN

\* ------------------------------------------------------------------ validateUpdateColumns
\* the UPDATE targets of a command that are not ordinary columns
BadTargets(command) ==
    {kv.column : kv \in {x \in command.column_to_update_expression : x.column \notin Ordinary}}

TargetError(c) ==
    IF c \in Materialized THEN "CANNOT_UPDATE_COLUMN" ELSE "NO_SUCH_COLUMN_IN_TABLE"

\* mutant: the last offending command is reported instead of the first
validateUpdateColumns_Last(cmds) ==
    LET offending == {k \in 1 .. Len(cmds) :
                        cmds[k].type = "UPDATE" /\ BadTargets(cmds[k]) # {}}
    IN  IF offending = {} THEN {""}
        ELSE LET last == CHOOSE k \in offending : \A j \in offending : k >= j
             IN  {TargetError(c) : c \in BadTargets(cmds[last])}

\* mutant: no target is checked
validateUpdateColumns_Skip(cmds) == {""}

\* The exceptions validateUpdateColumns can end with ({""} when it returns). The targets
\* of one command are visited in the iteration order of an unordered_map, so any
\* offending target of the first offending command can be the one reported.
validateUpdateColumns(cmds) ==
    LET offending == {k \in 1 .. Len(cmds) :
                        cmds[k].type = "UPDATE" /\ BadTargets(cmds[k]) # {}}
    IN  IF offending = {} THEN {""}
        ELSE LET first == CHOOSE k \in offending : \A j \in offending : k <= j
             IN  {TargetError(c) : c \in BadTargets(cmds[first])}

\* ------------------------------------------------------------------ prepare: entry
\* mutant: prepare does not look at is_prepared
PrepareEnter_NoPreparedCheck(who, dry) ==
    /\ pc = "idle"
    /\ Len(stages) <= MaxStale
    /\ caller' = who
    /\ dry_run' = dry
    /\ touched' = NotAsked
    /\ UNCHANGED <<commands, is_prepared, interpreter_select, stream, header, storage_rows,
                   out_block,
                   sets_in_dry_run>>
    /\ IF commands = <<>>
       THEN /\ error' = "EMPTY_COMMANDS"
            /\ UNCHANGED <<stages, pc, idx>>
       ELSE \E e \in validateUpdateColumns(commands) :
              IF e # ""
              THEN /\ error' = e
                   /\ UNCHANGED <<stages, pc, idx>>
              ELSE /\ error' = ""
                   /\ stages' = Append(stages, EmptyStage)
                   /\ pc' = "staging"
                   /\ idx' = 1

\* prepare(dry) up to and including the first stages.emplace_back()
PrepareEnter(who, dry) ==
    /\ pc = "idle"
    /\ is_prepared \/ Len(stages) <= MaxStale
    /\ caller' = who
    /\ dry_run' = dry
    /\ touched' = NotAsked
    /\ UNCHANGED <<commands, is_prepared, interpreter_select, stream, header, storage_rows,
                   out_block,
                   sets_in_dry_run>>
    /\ IF is_prepared
       THEN /\ error' = "ALREADY_PREPARED"
            /\ UNCHANGED <<stages, pc, idx>>
       ELSE IF commands = <<>>
       THEN /\ error' = "EMPTY_COMMANDS"
            /\ UNCHANGED <<stages, pc, idx>>
       ELSE \E e \in validateUpdateColumns(commands) :
              IF e # ""
              THEN /\ error' = e
                   /\ UNCHANGED <<stages, pc, idx>>
              ELSE /\ error' = ""
                   /\ stages' = Append(stages, EmptyStage)
                   /\ pc' = "staging"
                   /\ idx' = 1

\* MutationsInterpreter::validate, entered
Validate == PrepareEnter("validate", TRUE)

\* MutationsInterpreter::execute, entered
Execute == PrepareEnter("execute", FALSE)

\* ------------------------------------------------------------------ prepare: staging
\* mutant: a stage that already has an update is not closed
OpenStageAfterUpdate_Never(stgs) == stgs

\* mutant: every command opens a stage of its own
OpenStageAfterUpdate_Always(stgs) ==
    IF Len(stgs[Len(stgs)].update) > 0 \/ Len(stgs[Len(stgs)].deletes) > 0
    THEN Append(stgs, EmptyStage) ELSE stgs

\* if (stages.back().update) stages.emplace_back();
OpenStageAfterUpdate(stgs) ==
    IF Len(stgs[Len(stgs)].update) > 0 THEN Append(stgs, EmptyStage) ELSE stgs

\* mutant: the first stage accepts an UPDATE
LeaveFirstStage_Stay(stgs) == stgs

\* if (stages.size() == 1) stages.emplace_back();
LeaveFirstStage(stgs) ==
    IF Len(stgs) = 1 THEN Append(stgs, EmptyStage) ELSE stgs

\* mutant: a DELETE is put in front of the deletes of its stage
StageOneCommand_Prepend(stgs, command) ==
    LET opened == OpenStageAfterUpdate(stgs)
    IN  IF command.type = "DELETE"
        THEN [opened EXCEPT ![Len(opened)].deletes = <<command>> \o @]
        ELSE IF command.type = "UPDATE"
        THEN LET left == LeaveFirstStage(opened)
             IN  [left EXCEPT ![Len(left)].update = <<command>>]
        ELSE opened

\* mutant: the next stage is opened as soon as a stage gets its UPDATE
StageOneCommand_EagerOpen(stgs, command) ==
    LET opened == OpenStageAfterUpdate(stgs)
    IN  IF command.type = "DELETE"
        THEN [opened EXCEPT ![Len(opened)].deletes = Append(@, command)]
        ELSE IF command.type = "UPDATE"
        THEN LET left == LeaveFirstStage(opened)
             IN  Append([left EXCEPT ![Len(left)].update = <<command>>], EmptyStage)
        ELSE opened

\* one iteration of the staging loop; the result for a command of unknown type is the
\* stage list at the moment the exception is thrown
StageOneCommand(stgs, command) ==
    LET opened == OpenStageAfterUpdate(stgs)
    IN  IF command.type = "DELETE"
        THEN [opened EXCEPT ![Len(opened)].deletes = Append(@, command)]
        ELSE IF command.type = "UPDATE"
        THEN LET left == LeaveFirstStage(opened)
             IN  [left EXCEPT ![Len(left)].update = <<command>>]
        ELSE opened

\* one iteration of `for (const auto & command : commands)`
StageCommand ==
    /\ pc = "staging"
    /\ idx <= Len(commands)
    /\ stages' = StageOneCommand(stages, commands[idx])
    /\ IF commands[idx].type \in {"DELETE", "UPDATE"}
       THEN /\ idx' = idx + 1
            /\ UNCHANGED <<pc, error>>
       ELSE /\ error' = "UNKNOWN_MUTATION_COMMAND"
            /\ pc' = "idle"
            /\ idx' = 0
    /\ UNCHANGED <<commands, is_prepared, interpreter_select, caller, dry_run, stream,
                   header, storage_rows, out_block, touched,
                   sets_in_dry_run>>

\* ------------------------------------------------------------------ prepare: forward pass
UpdateTargets(stage) ==
    {kv.column : kv \in UNION {stage.update[k].column_to_update_expression :
                                  k \in 1 .. Len(stage.update)}}

\* mutant: output_columns of the previous stage is not copied
RECURSIVE ForwardColumns_NoCopy(_, _)
ForwardColumns_NoCopy(stgs, n) ==
    IF n = 0 THEN stgs
    ELSE LET prev == ForwardColumns_NoCopy(stgs, n - 1)
             stage == prev[n]
             out == IF Len(stage.deletes) > 0
                    THEN stage.output_columns \cup AllPhysical
                    ELSE IF Len(stage.update) > 0
                            /\ Cardinality(stage.output_columns) < Cardinality(AllPhysical)
                         THEN stage.output_columns \cup UpdateTargets(stage)
                         ELSE stage.output_columns
         IN  [prev EXCEPT ![n].output_columns = out]

\* iterations 1 .. n of the loop that computes output_columns
RECURSIVE ForwardColumns(_, _)
ForwardColumns(stgs, n) ==
    IF n = 0 THEN stgs
    ELSE LET prev == ForwardColumns(stgs, n - 1)
             stage == prev[n]
             copied == IF n > 1 THEN prev[n - 1].output_columns ELSE stage.output_columns
             out == IF Len(stage.deletes) > 0
                    THEN stage.output_columns \cup AllPhysical
                    ELSE IF Len(stage.update) > 0
                            /\ Cardinality(copied) < Cardinality(AllPhysical)
                         THEN copied \cup UpdateTargets(stage)
                         ELSE copied
         IN  [prev EXCEPT ![n].output_columns = out]

\* the staging loop has ended: run the whole forward loop
ForwardPass ==
    /\ pc = "staging"
    /\ idx > Len(commands)
    /\ stages' = ForwardColumns(stages, Len(stages))
    /\ pc' = "backward"
    /\ idx' = Len(stages)
    /\ UNCHANGED <<commands, is_prepared, interpreter_select, caller, dry_run, error,
                   stream, header, storage_rows, out_block, touched,
                   sets_in_dry_run>>

\* ------------------------------------------------------------------ prepare: backward pass
\* makeASTFunction("not", command.predicate->clone())
NegatedPredicate(command) == makeASTFunction("not", <<command.predicate>>)

\* an expression with every reference to a column replaced by another expression
RECURSIVE Substituted(_, _, _)
Substituted(ast, column, by) ==
    IF ast.node = "Identifier" THEN (IF ast.name = column THEN by ELSE ast)
    ELSE IF ast.node = "Function"
         THEN [ast EXCEPT !.args = [k \in 1 .. Len(ast.args) |->
                                        Substituted(ast.args[k], column, by)]]
         ELSE ast

\* mutant: the branches of the conditional are exchanged
UpdatedColumn_Exchanged(update, kv) ==
    makeASTFunction("CAST",
        <<makeASTFunction("if", <<update.predicate, ASTIdentifier(kv.column), kv.expr>>),
          ASTStringLiteral(ColumnTypeName(kv.column))>>)

\* mutant: the assignment of b is computed after a was replaced, so it reads the new a
UpdatedColumn_Sequential(update, kv) ==
    LET first == {x \in update.column_to_update_expression : x.column = "a"}
        new_a == (CHOOSE x \in first : TRUE).expr
        expr == IF kv.column = "b" /\ first # {}
                THEN Substituted(kv.expr, "a",
                        makeASTFunction("if", <<update.predicate, new_a, ASTIdentifier("a")>>))
                ELSE kv.expr
    IN  makeASTFunction("CAST",
            <<makeASTFunction("if", <<update.predicate, expr, ASTIdentifier(kv.column)>>),
              ASTStringLiteral(ColumnTypeName(kv.column))>>)

\* CAST(if(predicate, update_expr, column), type name of column)
UpdatedColumn(update, kv) ==
    makeASTFunction("CAST",
        <<makeASTFunction("if", <<update.predicate, kv.expr, ASTIdentifier(kv.column)>>),
          ASTStringLiteral(ColumnTypeName(kv.column))>>)

\* column_to_updated of a stage, as the set of its key/value pairs
ColumnToUpdated(stage) ==
    UNION {{[column |-> kv.column, updated |-> UpdatedColumn(stage.update[k], kv)] :
                kv \in stage.update[k].column_to_update_expression} :
           k \in 1 .. Len(stage.update)}

\* a step of an ExpressionActionsChain: the expressions it computes, the copyColumn
\* actions added after them, and its required_output (physical names and helper names)
Step(acts, cps, out, aux) ==
    [actions |-> acts, copies |-> cps, required_output |-> out, required_aux |-> aux]

\* mutant: the final step does not restrict its output to output_columns
ChainSteps_NoPruning(stage) ==
    LET filters == [k \in 1 .. Len(stage.deletes) |->
                        Step({NegatedPredicate(stage.deletes[k])}, {}, {},
                             {NegatedPredicate(stage.deletes[k])})]
        updated == ColumnToUpdated(stage)
        update_steps == IF Len(stage.update) > 0
                        THEN <<Step({u.updated : u \in updated},
                                    {[from |-> u.updated, to |-> u.column] : u \in updated},
                                    stage.output_columns, {u.updated : u \in updated})>>
                        ELSE <<>>
    IN  filters \o update_steps

\* the steps added for a stage, before finalize
ChainSteps(stage) ==
    LET filters == [k \in 1 .. Len(stage.deletes) |->
                        Step({NegatedPredicate(stage.deletes[k])}, {}, {},
                             {NegatedPredicate(stage.deletes[k])})]
        updated == ColumnToUpdated(stage)
        update_steps == IF Len(stage.update) > 0
                        THEN <<Step({u.updated : u \in updated},
                                    {[from |-> u.updated, to |-> u.column] : u \in updated},
                                    {}, {u.updated : u \in updated})>>
                        ELSE <<>>
    IN  filters \o update_steps \o <<Step({}, {}, stage.output_columns, {})>>

\* source columns a step needs in its input block
StepInput(step) ==
    UNION {RequiredSourceColumns(a) : a \in step.actions} \cup step.required_output

\* ExpressionActionsChain::finalize: from the last step to the first, every step is
\* required to output what the next step needs as input
RECURSIVE FinalizeFrom(_, _)
FinalizeFrom(steps, k) ==
    IF k = 0 THEN steps
    ELSE FinalizeFrom([steps EXCEPT ![k].required_output = @ \cup StepInput(steps[k + 1])],
                      k - 1)
Finalize(steps) == FinalizeFrom(steps, Len(steps) - 1)

\* actions_chain.steps.front().actions->getRequiredColumnsWithTypes(), names only
FrontRequiredColumns(chain) == StepInput(chain[1])

\* a predicate that is a null pointer is dereferenced by ->clone()
HasNullPredicate(stage) ==
    \/ \E k \in 1 .. Len(stage.deletes) : stage.deletes[k].predicate = NullAST
    \/ \E k \in 1 .. Len(stage.update) : stage.update[k].predicate = NullAST

\* the stage after its iteration of the backward loop; appendExpression gets dry_run as
\* only_types, and the analyzer registers the subquery sets of the expressions it was
\* given, under only_types only if it makes sets in a dry run
StageWithChain(stage, only_types, with_sets_in_dry_run) ==
    LET chain == Finalize(ChainSteps(stage))
    IN  [stage EXCEPT
            !.expressions_chain = chain,
            !.delete_filter_column_names =
                [k \in 1 .. Len(stage.deletes) |-> NegatedPredicate(stage.deletes[k])],
            !.subqueries_for_sets =
                IF only_types /\ ~with_sets_in_dry_run THEN {}
                ELSE UNION {SubqueriesOf(a) :
                                a \in UNION {chain[k].actions : k \in 1 .. Len(chain)}}]

\* mutant: the columns a stage needs are not added to the previous stage
PropagateRequired_None(stgs, i) == stgs

\* stages[i - 1].output_columns.insert(...) for every column the front step requires
PropagateRequired(stgs, i) ==
    [stgs EXCEPT ![i - 1].output_columns = @ \cup FrontRequiredColumns(stgs[i].expressions_chain)]

\* one iteration of the backward loop, for the stage at position i of the sequence
BackwardIteration(stgs, i, only_types, with_sets_in_dry_run) ==
    PropagateRequired(
        [stgs EXCEPT ![i] = StageWithChain(stgs[i], only_types, with_sets_in_dry_run)], i)

BackwardStep ==
    /\ pc = "backward"
    /\ idx > 1
    /\ IF HasNullPredicate(stages[idx])
       THEN /\ pc' = "crashed"
            /\ error' = "SIGSEGV"
            /\ UNCHANGED <<stages, idx>>
       ELSE /\ stages' = BackwardIteration(stages, idx, dry_run, sets_in_dry_run)
            /\ idx' = idx - 1
            /\ UNCHANGED <<pc, error>>
    /\ UNCHANGED <<commands, is_prepared, interpreter_select, caller, dry_run, stream,
                   header, storage_rows, out_block, touched,
                   sets_in_dry_run>>

\* ------------------------------------------------------------------ prepare: stage-0 SELECT
\* mutant: the negated predicates are combined with "or"
FirstStageWhere_Or(stage) ==
    LET delete_filters == [k \in 1 .. Len(stage.deletes) |-> NegatedPredicate(stage.deletes[k])]
    IN  IF Len(stage.deletes) = 0 THEN NullAST
        ELSE IF Len(stage.deletes) = 1 THEN delete_filters[1]
        ELSE makeASTFunction("or", delete_filters)

\* the WHERE of the stage-0 query (NullAST: no WHERE)
FirstStageWhere(stage) ==
    LET delete_filters == [k \in 1 .. Len(stage.deletes) |-> NegatedPredicate(stage.deletes[k])]
    IN  IF Len(stage.deletes) = 0 THEN NullAST
        ELSE IF Len(stage.deletes) = 1 THEN delete_filters[1]
        ELSE makeASTFunction("and", delete_filters)

\* mutant: the stage-0 query is created without the dry_run argument (it defaults to false)
BuildSelect_IgnoresDryRun ==
    /\ pc = "backward"
    /\ idx = 1
    /\ IF HasNullPredicate(stages[1])
       THEN /\ pc' = "crashed"
            /\ error' = "SIGSEGV"
            /\ UNCHANGED <<interpreter_select, is_prepared>>
       ELSE /\ interpreter_select' =
                    [created |-> TRUE, select_list |-> stages[1].output_columns,
                     where_expression |-> FirstStageWhere(stages[1]),
                     dry_run |-> FALSE, executed |-> FALSE]
            /\ is_prepared' = TRUE
            /\ pc' = "prepared"
            /\ UNCHANGED error
    /\ UNCHANGED <<commands, stages, caller, dry_run, idx, stream, header, storage_rows,
                   out_block, touched,
                   sets_in_dry_run>>

\* the rest of prepare after the backward loop
BuildSelect ==
    /\ pc = "backward"
    /\ idx = 1
    /\ IF HasNullPredicate(stages[1])
       THEN /\ pc' = "crashed"
            /\ error' = "SIGSEGV"
            /\ UNCHANGED <<interpreter_select, is_prepared>>
       ELSE /\ interpreter_select' =
                    [created |-> TRUE, select_list |-> stages[1].output_columns,
                     where_expression |-> FirstStageWhere(stages[1]),
                     dry_run |-> dry_run, executed |-> FALSE]
            /\ is_prepared' = TRUE
            /\ pc' = "prepared"
            /\ UNCHANGED error
    /\ UNCHANGED <<commands, stages, caller, dry_run, idx, stream, header, storage_rows,
                   out_block, touched,
                   sets_in_dry_run>>

\* ------------------------------------------------------------------ addStreamsForLaterStages
\* a stream is the list of its operators, source first
StreamOp(o, i, k, column) == [op |-> o, stage |-> i, step |-> k, filter_column |-> column]

\* mutant: the step of the last delete is run as a plain expression step
StageStreams_LastDeleteUnfiltered(stage, i) ==
    LET n == Len(stage.expressions_chain)
        steps == [k \in 1 .. n |->
                    IF k < Len(stage.delete_filter_column_names)
                    THEN StreamOp("Filter", i, k, stage.delete_filter_column_names[k])
                    ELSE StreamOp("Expression", i, k, NullAST)]
    IN  IF stage.subqueries_for_sets # {}
        THEN Append(steps, StreamOp("CreatingSets", i, 0, NullAST))
        ELSE steps

\* mutant: no operator creates the sets of a stage
StageStreams_NoSets(stage, i) ==
    [k \in 1 .. Len(stage.expressions_chain) |->
        IF k <= Len(stage.delete_filter_column_names)
        THEN StreamOp("Filter", i, k, stage.delete_filter_column_names[k])
        ELSE StreamOp("Expression", i, k, NullAST)]

\* the operators added for the stage at position i
StageStreams(stage, i) ==
    LET n == Len(stage.expressions_chain)
        steps == [k \in 1 .. n |->
                    IF k <= Len(stage.delete_filter_column_names)
                    THEN StreamOp("Filter", i, k, stage.delete_filter_column_names[k])
                    ELSE StreamOp("Expression", i, k, NullAST)]
    IN  IF stage.subqueries_for_sets # {}
        THEN Append(steps, StreamOp("CreatingSets", i, 0, NullAST))
        ELSE steps

RECURSIVE AddStagesFrom(_, _, _)
AddStagesFrom(in, stgs, i) ==
    IF i > Len(stgs) THEN in
    ELSE AddStagesFrom(in \o StageStreams(stgs[i], i), stgs, i + 1)

addStreamsForLaterStages(in, stgs) ==
    Append(AddStagesFrom(in, stgs, 2), StreamOp("Materializing", 0, 0, NullAST))

\* ------------------------------------------------------------------ running a stream
EmptyAux == [n \in {} |-> 0]

\* InterpreterSelectQuery::getSampleBlock
SampleBlock(select) ==
    [columns |-> select.select_list, aux |-> {}, rows |-> <<>>, status |-> "ok"]

\* InterpreterSelectQuery::execute, read to the end: the rows that pass WHERE, projected;
\* a query that selects a column the table does not have fails
SelectRows(select, table) ==
    LET Passes(r) == \/ select.where_expression = NullAST
                     \/ Eval(select.where_expression, r) # 0
        passed == SelectSeq(table, Passes)
    IN  IF ~(select.select_list \subseteq AllPhysical) THEN FailedBlock
        ELSE [columns |-> select.select_list, aux |-> {},
              rows |-> [k \in 1 .. Len(passed) |->
                          [c |-> [col \in select.select_list |-> passed[k][col]], x |-> EmptyAux]],
              status |-> "ok"]

\* ExpressionActions::execute of one chain step on a block: compute the expressions,
\* copy the updated columns over their targets, keep the step's required output
ExecuteStep(step, block) ==
    IF block.status # "ok" \/ ~(StepInput(step) \subseteq block.columns) THEN FailedBlock
    ELSE LET RowOut(r) ==
                LET computed == [a \in step.actions |-> Eval(a, r.c)]
                    Replaced(col) == \E cp \in step.copies : cp.to = col
                    Source(col) == (CHOOSE cp \in step.copies : cp.to = col).from
                IN  [c |-> [col \in step.required_output |->
                                IF Replaced(col) THEN computed[Source(col)] ELSE r.c[col]],
                     x |-> [a \in step.required_aux |-> computed[a]]]
         IN  [columns |-> step.required_output, aux |-> step.required_aux,
              rows |-> [k \in 1 .. Len(block.rows) |-> RowOut(block.rows[k])],
              status |-> "ok"]

\* FilterBlockInputStream: run the step, keep the rows whose filter column is non-zero,
\* drop the filter column
FilterBlock(step, column, block) ==
    LET b == ExecuteStep(step, block)
        Kept(r) == r.x[column] # 0
        DropColumn(r) == [c |-> r.c, x |-> [a \in b.aux \ {column} |-> r.x[a]]]
        kept == SelectSeq(b.rows, Kept)
    IN  IF b.status # "ok" THEN FailedBlock
        ELSE [columns |-> b.columns, aux |-> b.aux \ {column},
              rows |-> [k \in 1 .. Len(kept) |-> DropColumn(kept[k])], status |-> "ok"]

\* one operator applied to the block coming from below
ApplyOp(o, block, stgs) ==
    IF o.op = "Filter"
    THEN FilterBlock(stgs[o.stage].expressions_chain[o.step], o.filter_column, block)
    ELSE IF o.op = "Expression"
    THEN ExecuteStep(stgs[o.stage].expressions_chain[o.step], block)
    ELSE block

RECURSIVE RunFrom(_, _, _, _)
RunFrom(ops, k, block, stgs) ==
    IF k > Len(ops) THEN block
    ELSE RunFrom(ops, k + 1, ApplyOp(ops[k], block, stgs), stgs)

\* everything read from a stream whose source sees the given table
RunStream(ops, stgs, select, table) ==
    LET source == IF ops[1].op = "Select" THEN SelectRows(select, table)
                  ELSE SampleBlock(select)
    IN  RunFrom(ops, 2, source, stgs)

\* what happens, in order, when the first batch is pulled from operator k of a stream:
\* CreatingSetsBlockInputStream creates its sets and then reads its child, every other
\* operator reads its child and then works on the batch it got
RECURSIVE PullTrace(_, _)
PullTrace(ops, k) ==
    IF k = 0 THEN <<>>
    ELSE IF ops[k].op = "CreatingSets"
    THEN <<[event |-> "create_sets", stage |-> ops[k].stage, step |-> 0]>>
             \o PullTrace(ops, k - 1)
    ELSE PullTrace(ops, k - 1)
             \o <<[event |-> IF ops[k].op \in {"Filter", "Expression"} THEN "process"
                             ELSE "pass",
                    stage |-> ops[k].stage, step |-> ops[k].step]>>

\* ------------------------------------------------------------------ validate / execute, after prepare
\* validate: header of the later stages over a NullBlockInputStream with the stage-0 header
FinishValidate ==
    /\ pc = "prepared"
    /\ caller = "validate"
    /\ LET in == addStreamsForLaterStages(<<StreamOp("Null", 1, 0, NullAST)>>, stages)
           h == RunStream(in, stages, interpreter_select, <<>>)
       IN  /\ stream' = in
           /\ header' = h
           /\ error' = IF h.status = "ok" THEN "" ELSE "NOT_FOUND_COLUMN_IN_BLOCK"
    /\ pc' = "idle"
    /\ UNCHANGED <<commands, is_prepared, stages, interpreter_select, caller, dry_run, idx,
                   storage_rows, out_block, touched,
                   sets_in_dry_run>>

\* execute: start the stage-0 query and put the later stages on top of its stream
FinishExecute ==
    /\ pc = "prepared"
    /\ caller = "execute"
    /\ interpreter_select' = [interpreter_select EXCEPT !.executed = TRUE]
    /\ stream' = addStreamsForLaterStages(<<StreamOp("Select", 1, 0, NullAST)>>, stages)
    /\ pc' = "idle"
    /\ UNCHANGED <<commands, is_prepared, stages, caller, dry_run, idx, error, header,
                   storage_rows, out_block, touched,
                   sets_in_dry_run>>

\* the consumer reads the stream returned by execute to its end
ReadStream ==
    /\ pc = "idle"
    /\ stream # <<>>
    /\ stream[1].op = "Select"
    /\ out_block = NoBlock
    /\ \E table \in Tables :
        /\ storage_rows' = table
        /\ out_block' = RunStream(stream, stages, interpreter_select, table)
    /\ UNCHANGED <<commands, is_prepared, stages, interpreter_select, pc, caller, dry_run,
                   idx, error, stream, header, touched,
                   sets_in_dry_run>>

\* ------------------------------------------------------------------ isStorageTouchedByMutations
\* mutant: only the first predicate is counted
TouchedWhere_First(cmds) == cmds[1].predicate

\* WHERE of the count() query
TouchedWhere(cmds) ==
    IF Len(cmds) = 1 THEN cmds[1].predicate
    ELSE makeASTFunction("or", [k \in 1 .. Len(cmds) |-> cmds[k].predicate])

\* What the query engine can hand back for SELECT count(): one row holding the count;
\* no row at all when nothing passed WHERE and empty_result_for_aggregation_by_empty_set
\* is on; more than one row only if the engine is broken (the case the code checks for).
EngineBehaviours == {"one_row", "empty_result", "extra_row"}

\* the block read from the count() query
CountBlock(where, table, engine) ==
    LET Passes(r) == Eval(where, r) # 0
        count == Len(SelectSeq(table, Passes))
    IN  IF engine = "extra_row" THEN <<count, count>>
        ELSE IF count = 0 /\ engine = "empty_result" THEN <<>>
        ELSE <<count>>

\* mutant: the number of rows of the block is not checked
TouchedFromBlock_NoRowCheck(block) ==
    IF Len(block) = 0 THEN "false"
    ELSE IF block[1] # 0 THEN "true" ELSE "false"

\* what is done with the block that was read
TouchedFromBlock(block) ==
    IF Len(block) = 0 THEN "false"
    ELSE IF Len(block) # 1 THEN "LOGICAL_ERROR"
    ELSE IF block[1] # 0 THEN "true" ELSE "false"

\* mutant: commands without predicate are not looked for
isStorageTouchedByMutations_NoNullCheck(cmds, table, engine) ==
    IF cmds = <<>> THEN [result |-> "false", where |-> NullAST, block |-> <<>>]
    ELSE LET where == TouchedWhere(cmds)
             block == CountBlock(where, table, engine)
         IN  [result |-> TouchedFromBlock(block), where |-> where, block |-> block]

\* the value returned (or LOGICAL_ERROR thrown), the WHERE of the count() query and the
\* block read from it; where is NullAST when no query was built
isStorageTouchedByMutations(cmds, table, engine) ==
    IF cmds = <<>> THEN [result |-> "false", where |-> NullAST, block |-> <<>>]
    ELSE IF \E k \in 1 .. Len(cmds) : cmds[k].predicate = NullAST
    THEN [result |-> "true", where |-> NullAST, block |-> <<>>]
    ELSE LET where == TouchedWhere(cmds)
             block == CountBlock(where, table, engine)
         IN  [result |-> TouchedFromBlock(block), where |-> where, block |-> block]

\* a call of isStorageTouchedByMutations between two calls of validate / execute, on an
\* instance that is not prepared yet
IsStorageTouched ==
    /\ pc = "idle"
    /\ ~is_prepared
    /\ touched = NotAsked
    /\ \E table \in Tables, engine \in EngineBehaviours :
        LET call == isStorageTouchedByMutations(commands, table, engine)
        IN  touched' = [result |-> call.result, rows |-> table,
                        where |-> call.where, block |-> call.block]
    /\ UNCHANGED <<commands, is_prepared, stages, interpreter_select, pc, caller, dry_run,
                   idx, error, stream, header, storage_rows, out_block,
                   sets_in_dry_run>>

\* ------------------------------------------------------------------ specification
Next ==
    \/ Validate
    \/ Execute
    \/ StageCommand
    \/ ForwardPass
    \/ BackwardStep
    \/ BuildSelect
    \/ FinishValidate
    \/ FinishExecute
    \/ ReadStream
    \/ IsStorageTouched

Spec == Init /\ [][Next]_vars

\* ------------------------------------------------------------------ reference semantics
\* One command applied to a list of rows, as the command reads by itself: DELETE removes
\* the rows its predicate holds on, UPDATE assigns in those rows every target column its
\* expression, evaluated on the row before the update and converted to the column's type.
\* A command without predicate applies to every row.
Matches(command, r) == command.predicate = NullAST \/ Eval(command.predicate, r) # 0

UpdatedRow(command, r) ==
    [col \in DOMAIN r |->
        IF \E kv \in command.column_to_update_expression : kv.column = col
        THEN LET kv == CHOOSE x \in command.column_to_update_expression : x.column = col
             IN  Eval(kv.expr, r) % ModulusOf(ColumnTypeName(col))
        ELSE r[col]]

ApplyCommand(command, rows) ==
    LET Survives(r) == ~Matches(command, r)
    IN  IF command.type = "DELETE" THEN SelectSeq(rows, Survives)
        ELSE IF command.type = "UPDATE"
        THEN [k \in 1 .. Len(rows) |->
                IF Matches(command, rows[k]) THEN UpdatedRow(command, rows[k]) ELSE rows[k]]
        ELSE rows

\* the commands applied one at a time, in their order, each to the rows left by the earlier ones
RECURSIVE ApplySequentially(_, _, _)
ApplySequentially(cmds, k, rows) ==
    IF k > Len(cmds) THEN rows
    ELSE ApplySequentially(cmds, k + 1, ApplyCommand(cmds[k], rows))

\* rows restricted to a set of columns
Project(rows, columns) == [k \in 1 .. Len(rows) |-> [col \in columns |-> rows[k][col]]]

\* the physical columns of the rows of a block
BlockRows(block) == [k \in 1 .. Len(block.rows) |-> block.rows[k].c]

OnlyDeletesAndUpdates == \A k \in 1 .. Len(commands) : commands[k].type \in {"DELETE", "UPDATE"}
LastStage == stages[Len(stages)]
\* the consumer has read the stream returned by execute
WasRead == out_block # NoBlock

\* ------------------------------------------------------------------ claims
\* C1: the rows read from the stream returned by execute are the rows obtained by applying
\* the commands one at a time in their order to the stored rows, each command seeing the
\* rows left by the earlier ones, restricted to the output columns of the last stage.
C1_PipelineIsSequential ==
    WasRead =>
        /\ out_block.status = "ok"
        /\ BlockRows(out_block)
             = Project(ApplySequentially(commands, 1, storage_rows), LastStage.output_columns)

\* C1 witness: three stages were run on two rows; an UPDATE changed a column that the
\* DELETE after it reads, one row was deleted because of that change and one row is left.
C1_Witness ==
    /\ WasRead
    /\ commands = <<U_inc, D_a, U_set>>
    /\ Len(storage_rows) = 2
    /\ \A k \in 1 .. 2 : storage_rows[k]["a"] = 0
    /\ Len(out_block.rows) = 1

\* C2: when isStorageTouchedByMutations returns false, applying the commands one at a
\* time in their order to the rows it saw deletes no row and changes no value.
C2_NoFalseNegative ==
    touched.result = "false" => ApplySequentially(commands, 1, touched.rows) = touched.rows

\* C2 witness: false was returned for a non-empty table and a list in which an UPDATE
\* assigns the column that the predicate of the next command reads.
C2_Witness ==
    /\ touched.result = "false"
    /\ commands = <<U_inc, D_a>>
    /\ Len(touched.rows) = 2

\* C3: the columns of the header validate computes and of the block read from the stream
\* of execute are exactly output_columns of the last stage, all of them physical columns,
\* and no helper column is left.
C3_OnlyOutputColumns ==
    /\ (caller = "validate" /\ pc = "idle" /\ is_prepared /\ error = "")
            => header.status = "ok"
    /\ \A block \in {header, out_block} :
          block # NoBlock =>
            /\ block.status = "ok"
            /\ block.columns = LastStage.output_columns
            /\ block.columns \subseteq AllPhysical
            /\ block.aux = {}

\* C3 witness: validate finished for a list whose last stage has a delete filter and an
\* update (both add helper columns) and whose first stage had to deliver more columns
\* than the last stage puts out.
C3_Witness ==
    /\ header.status = "ok"
    /\ Len(stages) = 3
    /\ Len(LastStage.deletes) > 0 /\ Len(LastStage.update) > 0
    /\ Len(stages[2].deletes) = 0

\* number of the first n commands that are UPDATEs
RECURSIVE UpdatesAmong(_, _)
UpdatesAmong(cmds, n) ==
    IF n = 0 THEN 0
    ELSE UpdatesAmong(cmds, n - 1) + (IF cmds[n].type = "UPDATE" THEN 1 ELSE 0)

\* how many commands the staging loop has gone through
Staged == IF pc = "staging" THEN idx - 1 ELSE IF stages = <<>> THEN 0 ELSE Len(commands)

\* C4: while and after a list of DELETE/UPDATE commands is staged, the first stage holds no
\* UPDATE, and every UPDATE gone through so far is the update of a stage of its own (no
\* stage was given a second one).
C4_UpdatesPerStage ==
    (OnlyDeletesAndUpdates /\ stages # <<>>) =>
        /\ stages[1].update = <<>>
        /\ \A i \in 1 .. Len(stages) : Len(stages[i].update) <= 1
        /\ Cardinality({i \in 1 .. Len(stages) : Len(stages[i].update) = 1})
             = UpdatesAmong(commands, Staged)
        /\ \A i \in 1 .. Len(stages) : \A k \in 1 .. Len(stages[i].deletes) :
              stages[i].deletes[k].type = "DELETE"

\* C4 witness: the staging loop is in the middle of a list, after two UPDATEs in a row.
C4_Witness ==
    /\ pc = "staging"
    /\ idx = 3
    /\ Len(commands) = 3
    /\ commands[1].type = "UPDATE" /\ commands[2].type = "UPDATE"
    /\ Len(stages) = 3

AllDeletes == commands # <<>> /\ \A k \in 1 .. Len(commands) : commands[k].type = "DELETE"

\* C5: a non-empty list of DELETEs only is staged into one stage, and the stream assembled
\* for it is the stage-0 source followed by the materializing operator only.
C5_DeletesOnlyOneStage ==
    AllDeletes =>
        /\ Len(stages) <= 1
        /\ (pc \notin {"idle", "crashed"} \/ is_prepared) => Len(stages) = 1
        /\ stream # <<>> =>
              /\ Len(stream) = 2
              /\ stream[1].op \in {"Select", "Null"}
              /\ stream[2].op = "Materializing"

\* C5 witness: execute returned the stream for a list of three DELETEs.
C5_Witness ==
    /\ AllDeletes
    /\ Len(commands) = 3
    /\ stream # <<>>
    /\ stream[1].op = "Select"
    /\ interpreter_select.where_expression.name = "and"

\* the forward loop has just ended and the backward loop has not started
ForwardDone == pc = "backward" /\ idx = Len(stages)

\* C6 as stated: in the plan left by prepare every stage's output_columns contains the
\* previous stage's, and a stage with a DELETE has all physical columns.
C6_AsStated ==
    is_prepared =>
        \A i \in 2 .. Len(stages) :
            /\ stages[i - 1].output_columns \subseteq stages[i].output_columns
            /\ Len(stages[i].deletes) > 0 => stages[i].output_columns = AllPhysical

\* C6 amended: output_columns[i] contains output_columns[i-1] when the forward loop has
\* ended, before the backward loop adds to output_columns[i-1] the columns stage i needs;
\* then and in the plan left by prepare a stage with a DELETE has all physical columns.
C6_ForwardSuperset ==
    /\ ForwardDone =>
          \A i \in 2 .. Len(stages) :
              stages[i - 1].output_columns \subseteq stages[i].output_columns
    /\ (ForwardDone \/ is_prepared) =>
          \A i \in 2 .. Len(stages) :
              Len(stages[i].deletes) > 0 => stages[i].output_columns = AllPhysical

\* C6 witness: after the forward loop, three stages with growing column sets, the last
\* one with a DELETE.
C6_Witness ==
    /\ ForwardDone
    /\ Len(stages) = 3
    /\ stages[1].output_columns = {}
    /\ stages[2].output_columns # {} /\ stages[2].output_columns # AllPhysical
    /\ Len(stages[3].deletes) > 0

\* the columns the commands of a stage read or write, and the columns it puts out
StageReads(stage) ==
    UNION {RequiredSourceColumns(stage.deletes[k].predicate) : k \in 1 .. Len(stage.deletes)}
    \cup UNION {RequiredSourceColumns(stage.update[k].predicate) : k \in 1 .. Len(stage.update)}
    \cup UNION {RequiredSourceColumns(kv.expr) :
                  kv \in UNION {stage.update[k].column_to_update_expression :
                                  k \in 1 .. Len(stage.update)}}
    \cup UpdateTargets(stage)
    \cup stage.output_columns

\* the columns of the stream the stage at position j hands to the next one
Delivered(j) ==
    IF j = 1 THEN interpreter_select.select_list
    ELSE stages[j].expressions_chain[Len(stages[j].expressions_chain)].required_output

\* C7: after prepare, what a stage reads is in output_columns of the stage before it and
\* in the stream that stage delivers.
C7_InputsDelivered ==
    is_prepared =>
        \A i \in 2 .. Len(stages) :
            /\ StageReads(stages[i]) \subseteq stages[i - 1].output_columns
            /\ StageReads(stages[i]) \subseteq Delivered(i - 1)

\* C7 witness: the middle stage of three only updates, and delivers a column that is not
\* one of its targets because the last stage reads it.
C7_Witness ==
    /\ is_prepared
    /\ Len(stages) = 3
    /\ stages[1].deletes = <<>> /\ stages[2].deletes = <<>> /\ stages[3].deletes = <<>>
    /\ Delivered(2) # UpdateTargets(stages[2])
    /\ StageReads(stages[3]) \ UpdateTargets(stages[2]) # {}

\* C8: on a prepared instance that is not inside a call, every step leaves the stages, the
\* stage-0 query and is_prepared as they are, and a call of validate or execute ends at
\* once with the already-prepared error.
C8_PreparedOnce ==
    [][(is_prepared /\ pc = "idle") =>
          /\ stages' = stages
          /\ interpreter_select' = interpreter_select
          /\ is_prepared'
          /\ (Validate \/ Execute) => (error' = "ALREADY_PREPARED" /\ pc' = "idle")]_vars

\* C8 witness: a call on a prepared instance was refused.
C8_Witness ==
    /\ is_prepared
    /\ error = "ALREADY_PREPARED"
    /\ pc = "idle"
    /\ Len(stages) >= 2

\* the lists C9 is about
InvalidList ==
    \/ commands = <<>>
    \/ \E k \in 1 .. Len(commands) : commands[k].type \notin {"DELETE", "UPDATE"}
    \/ \E k \in 1 .. Len(commands) :
          commands[k].type = "UPDATE" /\ BadTargets(commands[k]) # {}

\* C9: for an empty list, a list with a command of unknown type or a list with an UPDATE
\* of a missing or materialized column, every call ends with an exception thrown by
\* prepare; the stage-0 query is never created, nothing is read, is_prepared stays false.
C9_InvalidNeverReads ==
    InvalidList =>
        /\ ~is_prepared
        /\ interpreter_select = NoSelect
        /\ stream = <<>> /\ header = NoBlock
        /\ storage_rows = <<>> /\ out_block = NoBlock
        /\ pc \in {"idle", "staging"}
        /\ (caller # "" /\ pc = "idle") =>
              error \in {"EMPTY_COMMANDS", "UNKNOWN_MUTATION_COMMAND",
                         "CANNOT_UPDATE_COLUMN", "NO_SUCH_COLUMN_IN_TABLE"}

\* C9 witness: execute failed on a command of unknown type after part of the list was staged.
C9_Witness ==
    /\ caller = "execute"
    /\ error = "UNKNOWN_MUTATION_COMMAND"
    /\ Len(stages) >= 2

\* the column layout as a function of the command list and the storage columns alone
LayoutOf(cmds) ==
    IF \E k \in 1 .. Len(cmds) : cmds[k].type = "DELETE" THEN AllPhysical
    ELSE {kv.column : kv \in UNION {cmds[k].column_to_update_expression : k \in 1 .. Len(cmds)}}

\* C10: a validate that is not refused creates the stage-0 query in dry-run mode, never
\* executes it and reads no row; the later stages are put on a NullBlockInputStream; the
\* header it computes has no rows and its columns are fixed by the command list and the
\* storage columns alone.
C10_ValidateReadsNothing ==
    (caller = "validate" /\ error # "ALREADY_PREPARED") =>
        /\ ~interpreter_select.executed
        /\ storage_rows = <<>> /\ out_block = NoBlock
        /\ interpreter_select.created => interpreter_select.dry_run
        /\ stream # <<>> => (/\ stream[1].op = "Null"
                             /\ \A k \in 1 .. Len(stream) : stream[k].op # "Select")
        /\ header # NoBlock => (/\ header.rows = <<>>
                                /\ header.columns = LayoutOf(commands))

\* C10 witness: validate has finished for a list with deletes in the first stage and a
\* later stage.
C10_Witness ==
    /\ caller = "validate"
    /\ header.status = "ok"
    /\ Len(stages) >= 2
    /\ interpreter_select.where_expression # NullAST
    /\ interpreter_select.dry_run

\* positions of the UPDATEs that assign a column which is not an ordinary column
OffendingUpdates ==
    {k \in 1 .. Len(commands) :
        /\ commands[k].type = "UPDATE"
        /\ \E kv \in commands[k].column_to_update_expression : kv.column \notin Ordinary}

ColumnErrors == {"CANNOT_UPDATE_COLUMN", "NO_SUCH_COLUMN_IN_TABLE"}

\* C11: a call on a non-empty list of an instance that is not prepared gets past the column
\* validation (and into staging) iff every UPDATE target is an ordinary column; otherwise
\* it ends, with nothing staged, with the error of a target of the first offending UPDATE:
\* CANNOT_UPDATE_COLUMN for a materialized column, NO_SUCH_COLUMN_IN_TABLE for a column
\* that does not exist, also when a command of unknown type comes earlier in the list.
C11_ColumnValidation ==
    (caller # "" /\ commands # <<>> /\ error # "ALREADY_PREPARED") =>
        IF OffendingUpdates = {}
        THEN error \notin ColumnErrors /\ stages # <<>>
        ELSE LET first == CHOOSE k \in OffendingUpdates : \A j \in OffendingUpdates : k <= j
                 targets == {kv.column : kv \in commands[first].column_to_update_expression}
                              \ Ordinary
             IN  /\ pc = "idle"
                 /\ stages = <<>>
                 /\ \E c \in targets :
                       error = (IF c \in Materialized THEN "CANNOT_UPDATE_COLUMN"
                                ELSE "NO_SUCH_COLUMN_IN_TABLE")

\* C11 witness: an unknown command, then an UPDATE of a missing column, then an UPDATE of
\* a materialized column: the call ended with NO_SUCH_COLUMN_IN_TABLE.
C11_Witness ==
    /\ commands = <<X_other, U_missing, U_mat>>
    /\ caller = "validate"
    /\ error = "NO_SUCH_COLUMN_IN_TABLE"

\* the count() query was built and run
Queried == touched.where # NullAST

\* C12: isStorageTouchedByMutations returns false for the empty list and true for a list
\* with a command without predicate, and in both cases builds and runs no query.
C12_NoQueryShortcuts ==
    touched # NotAsked =>
        /\ commands = <<>> => (touched.result = "false" /\ ~Queried /\ touched.block = <<>>)
        /\ (\E k \in 1 .. Len(commands) : commands[k].predicate = NullAST)
              => (touched.result = "true" /\ ~Queried /\ touched.block = <<>>)

\* C12 witness: true was returned without a query for a list whose last command has no
\* predicate, on an empty table.
C12_Witness ==
    /\ touched.result = "true"
    /\ ~Queried
    /\ Len(commands) = 3
    /\ commands[1].predicate # NullAST /\ commands[2].predicate # NullAST
    /\ commands[3].predicate = NullAST
    /\ touched.rows = <<>>

\* some stored row satisfies the predicate of some command
SomeRowMatches(cmds, rows) ==
    \E r \in 1 .. Len(rows), k \in 1 .. Len(cmds) : Eval(cmds[k].predicate, rows[r]) # 0

\* C13: when the list is non-empty and every command has a predicate, the query is built
\* with the predicate itself (one command) or the OR of all predicates as WHERE; an empty
\* block gives false, a block of more than one row gives LOGICAL_ERROR, and otherwise the
\* result is true iff some stored row satisfies some command's predicate.
C13_TouchedIffSomeRowMatches ==
    (touched # NotAsked /\ commands # <<>>
        /\ \A k \in 1 .. Len(commands) : commands[k].predicate # NullAST) =>
        /\ Queried
        /\ Len(commands) = 1 => touched.where = commands[1].predicate
        /\ Len(commands) > 1 =>
              (/\ touched.where.name = "or"
               /\ touched.where.args = [k \in 1 .. Len(commands) |-> commands[k].predicate])
        /\ Len(touched.block) = 0 => touched.result = "false"
        /\ Len(touched.block) > 1 => touched.result = "LOGICAL_ERROR"
        /\ Len(touched.block) <= 1 =>
              (/\ touched.result \in {"true", "false"}
               /\ touched.result = "true" <=> SomeRowMatches(commands, touched.rows))

\* C13 witness: true was returned for three commands because one row satisfies only the
\* predicate of the last one.
C13_Witness ==
    /\ touched.result = "true"
    /\ Queried
    /\ Len(commands) = 3
    /\ Len(touched.rows) = 2
    /\ ~SomeRowMatches(SubSeq(commands, 1, 2), touched.rows)
    /\ touched.block = <<1>>

\* the commands of the first n stages: stage by stage, the deletes, then the update
RECURSIVE StagedCommands(_, _)
StagedCommands(stgs, n) ==
    IF n = 0 THEN <<>>
    ELSE StagedCommands(stgs, n - 1) \o stgs[n].deletes \o stgs[n].update

\* the stage holding the p-th of the commands read that way
StageOfPosition(stgs, p) ==
    CHOOSE i \in 1 .. Len(stgs) :
        /\ Len(StagedCommands(stgs, i)) >= p
        /\ \A j \in 1 .. (i - 1) : Len(StagedCommands(stgs, j)) < p

\* C14: while and after a list of DELETE/UPDATE commands is staged, the stages read in
\* order (deletes of a stage in their order, then its update) give back the commands gone
\* through so far in their original order, and a DELETE that comes right after an UPDATE
\* is in a later stage than that UPDATE.
C14_StagingKeepsOrder ==
    (OnlyDeletesAndUpdates /\ stages # <<>>) =>
        /\ StagedCommands(stages, Len(stages)) = SubSeq(commands, 1, Staged)
        /\ \A k \in 1 .. (Staged - 1) :
              (commands[k].type = "UPDATE" /\ commands[k + 1].type = "DELETE") =>
                  StageOfPosition(stages, k + 1) > StageOfPosition(stages, k)

\* C14 witness: DELETE, UPDATE, DELETE was staged into three stages.
C14_Witness ==
    /\ is_prepared
    /\ Len(commands) = 3
    /\ commands[1].type = "DELETE" /\ commands[2].type = "UPDATE"
    /\ commands[3].type = "DELETE"
    /\ commands[1] # commands[3]
    /\ Len(stages) = 3

\* C19: while and after a list of DELETE/UPDATE commands is staged, every stage but the
\* first holds a command, every stage between the first and the last holds an UPDATE, and
\* the number of stages is 1 without UPDATE, else the number of UPDATEs plus 1 when the
\* last command gone through is an UPDATE and plus 2 when it is a DELETE.
C19_StageCount ==
    (OnlyDeletesAndUpdates /\ stages # <<>>) =>
        /\ \A i \in 2 .. Len(stages) : Len(stages[i].deletes) + Len(stages[i].update) >= 1
        /\ \A i \in 2 .. (Len(stages) - 1) : Len(stages[i].update) = 1
        /\ Len(stages) =
              (IF UpdatesAmong(commands, Staged) = 0 THEN 1
               ELSE IF commands[Staged].type = "UPDATE"
                    THEN 1 + UpdatesAmong(commands, Staged)
                    ELSE 2 + UpdatesAmong(commands, Staged))

\* C19 witness: UPDATE, UPDATE, DELETE was staged into four stages.
C19_Witness ==
    /\ pc = "backward"
    /\ Len(commands) = 3
    /\ commands[1].type = "UPDATE" /\ commands[2].type = "UPDATE"
    /\ commands[3].type = "DELETE"
    /\ Len(stages) = 4

\* positions in the stream of the operators that run the update step of a stage
UpdateOps ==
    {k \in 2 .. Len(stream) :
        /\ stream[k].op = "Expression"
        /\ Len(stages[stream[k].stage].update) = 1
        /\ stream[k].step = Len(stages[stream[k].stage].deletes) + 1}

\* the UPDATE run by the operator at position k
UpdateOf(k) == stages[stream[k].stage].update[1]
\* the block the operator at position k of the stream reads, and the block it returns
BlockBelow(k) == RunStream(SubSeq(stream, 1, k - 1), stages, interpreter_select, storage_rows)
BlockAbove(k) == ApplyOp(stream[k], BlockBelow(k), stages)
\* the stream returned by execute was read by the consumer
ExecuteWasRead == WasRead /\ stream # <<>> /\ stream[1].op = "Select"

\* C15: when the stream returned by execute is read, the update step of every stage
\* returns as many rows as it gets; in every row each column that is no target of the
\* UPDATE keeps its value, each target keeps its value if the predicate is false on the
\* row, and otherwise gets the value of its expression on the row, converted to the
\* column's type.
C15_UpdateStepFrame ==
    ExecuteWasRead =>
        \A k \in UpdateOps :
            LET before == BlockBelow(k)
                after == BlockAbove(k)
                update == UpdateOf(k)
                Expr(col) == (CHOOSE kv \in update.column_to_update_expression :
                                    kv.column = col).expr
            IN  /\ after.status = "ok"
                /\ after.columns \subseteq before.columns
                /\ Len(after.rows) = Len(before.rows)
                /\ \A r \in 1 .. Len(after.rows) : \A col \in after.columns :
                      after.rows[r].c[col] =
                          (IF col \in UpdateTargets(stages[stream[k].stage])
                                 /\ Eval(update.predicate, before.rows[r].c) # 0
                           THEN Eval(Expr(col), before.rows[r].c)
                                    % ModulusOf(ColumnTypeName(col))
                           ELSE before.rows[r].c[col])

\* C15 witness: UPDATE a = a + 1 WHERE b = 1 ran on a row it leaves alone and on a row with
\* the largest a, which wraps to 0 by the conversion.
C15_Witness ==
    /\ ExecuteWasRead
    /\ commands = <<U_inc>>
    /\ UpdateOps # {}
    /\ Len(storage_rows) = 2
    /\ storage_rows[1]["b"] = 0
    /\ storage_rows[2]["b"] = 1 /\ storage_rows[2]["a"] = TypeModulus - 1
    /\ Len(out_block.rows) = 2
    /\ out_block.rows[1].c["a"] = storage_rows[1]["a"]
    /\ out_block.rows[2].c["a"] = 0

\* C16: when the stream returned by execute is read, the update step of an UPDATE with
\* several targets gives every row its predicate holds on, as the row was before the
\* step, the values of all its expressions on the row as it was before the step; a target
\* assigned another target gets that target's old value.
C16_AssignmentsReadOldValues ==
    ExecuteWasRead =>
        \A k \in UpdateOps :
            Cardinality(UpdateOf(k).column_to_update_expression) >= 2 =>
                LET before == BlockBelow(k)
                    after == BlockAbove(k)
                IN  \A r \in 1 .. Len(before.rows) :
                        LET old == before.rows[r].c
                            new == after.rows[r].c
                        IN  Matches(UpdateOf(k), old) =>
                              /\ \A col \in after.columns : new[col] = UpdatedRow(UpdateOf(k), old)[col]
                              /\ \A kv \in UpdateOf(k).column_to_update_expression :
                                    (kv.expr.node = "Identifier" /\ kv.column \in after.columns)
                                        => new[kv.column]
                                             = old[kv.expr.name] % ModulusOf(ColumnTypeName(kv.column))

\* C16 witness: UPDATE a = b, b = a WHERE a = 1 ran on the row a = 1, b = 0 and gave
\* a = 0, b = 1.
C16_Witness ==
    /\ ExecuteWasRead
    /\ commands = <<U_swap>>
    /\ Len(storage_rows) = 1
    /\ storage_rows[1]["a"] = 1 /\ storage_rows[1]["b"] = 0
    /\ Len(out_block.rows) = 1
    /\ out_block.rows[1].c["a"] = 0 /\ out_block.rows[1].c["b"] = 1

\* C17: the stage-0 query has no WHERE if stage 0 has no delete, WHERE not(p) for one
\* delete, WHERE and(not(p1), ..., not(pk)) in stage order for k > 1 deletes, and selects
\* exactly output_columns of stage 0; when the stream returned by execute is read, the
\* query gives exactly the stored rows that no stage-0 delete predicate holds on, with
\* those columns.
C17_FirstStageQuery ==
    interpreter_select.created =>
        LET deletes == stages[1].deletes
            where == interpreter_select.where_expression
            Survives(r) == \A k \in 1 .. Len(deletes) : Eval(deletes[k].predicate, r) = 0
        IN  /\ Len(deletes) = 0 => where = NullAST
            /\ Len(deletes) = 1 => where = makeASTFunction("not", <<deletes[1].predicate>>)
            /\ Len(deletes) > 1 =>
                  where = makeASTFunction("and",
                              [k \in 1 .. Len(deletes) |->
                                  makeASTFunction("not", <<deletes[k].predicate>>)])
            /\ interpreter_select.select_list = stages[1].output_columns
            /\ ExecuteWasRead =>
                  BlockRows(SelectRows(interpreter_select, storage_rows))
                      = Project(SelectSeq(storage_rows, Survives), stages[1].output_columns)

\* C17 witness: stage 0 holds the two deletes of DELETE WHERE a IN (s1), DELETE WHERE
\* b = 1; of two rows the second deletes the one the first does not hold on.
C17_Witness ==
    /\ ExecuteWasRead
    /\ commands = <<D_a, D_b>>
    /\ Len(stages[1].deletes) = 2
    /\ interpreter_select.where_expression.name = "and"
    /\ Len(storage_rows) = 2
    /\ storage_rows[1]["a"] = 0 /\ storage_rows[1]["b"] = 1
    /\ storage_rows[2]["a"] = 0 /\ storage_rows[2]["b"] = 0
    /\ BlockRows(out_block) = <<storage_rows[2]>>

\* the filter and expression operators a stream holds for the stage at position i
StageOps(i) ==
    LET OfStage(o) == o.stage = i /\ o.op \in {"Filter", "Expression"}
    IN  SelectSeq(stream, OfStage)

\* positions in the stream of the operators that run a delete step
FilterOps == {p \in 2 .. Len(stream) : stream[p].op = "Filter"}

\* C18: once prepared, every stage after stage 0 with d deletes has a chain of d steps,
\* one more if it has an update, and one more, and d filter column names; step k <= d
\* computes not() of the k-th delete's predicate. A stream built for the stages runs the
\* steps of a stage in order, step k <= d as a filter on the k-th filter column name and
\* every later step as an expression; when the stream returned by execute is read, every
\* filter returns the rows it got that its delete's predicate does not hold on.
C18_ChainShape ==
    /\ is_prepared =>
          \A i \in 2 .. Len(stages) :
              LET stage == stages[i]
                  d == Len(stage.deletes)
              IN  /\ Len(stage.expressions_chain) = d + Len(stage.update) + 1
                  /\ Len(stage.delete_filter_column_names) = d
                  /\ \A k \in 1 .. d :
                        /\ stage.expressions_chain[k].actions
                              = {makeASTFunction("not", <<stage.deletes[k].predicate>>)}
                        /\ stage.delete_filter_column_names[k]
                              = makeASTFunction("not", <<stage.deletes[k].predicate>>)
                  /\ stream # <<>> =>
                        /\ Len(StageOps(i)) = Len(stage.expressions_chain)
                        /\ \A k \in 1 .. Len(StageOps(i)) :
                              StageOps(i)[k] =
                                  (IF k <= d
                                   THEN StreamOp("Filter", i, k, stage.delete_filter_column_names[k])
                                   ELSE StreamOp("Expression", i, k, NullAST))
    /\ ExecuteWasRead =>
          \A p \in FilterOps :
              LET delete == stages[stream[p].stage].deletes[stream[p].step]
                  Survives(r) == Eval(delete.predicate, r) = 0
              IN  BlockRows(BlockAbove(p)) = SelectSeq(BlockRows(BlockBelow(p)), Survives)

\* C18 witness: the stage after UPDATE a = a + 1 WHERE b = 1 holds two deletes; the row
\* a = 1, b = 1 passes the filter of the first and is removed by the filter of the second.
C18_Witness ==
    /\ ExecuteWasRead
    /\ commands = <<U_inc, D_a, D_b>>
    /\ Len(stages) = 3
    /\ Len(stages[3].expressions_chain) = 3
    /\ \E p \in FilterOps :
          /\ stream[p].stage = 3 /\ stream[p].step = 2
          /\ Len(BlockBelow(p).rows) = 1
          /\ Len(BlockAbove(p).rows) = 0

\* positions of the events of a stage in the pull of the first batch from the top of the stream
EventsAt(trace, kind, i) == {n \in 1 .. Len(trace) : trace[n].event = kind /\ trace[n].stage = i}

\* C20: in every stream built for the stages, a stage after stage 0 has a set-creating
\* operator exactly if it has pending sets; that operator stands above all filter and
\* expression operators of its stage and below those of the next stage, and when the
\* first batch is pulled from the top it creates the sets before any step of its stage
\* works on a batch.
C20_SetsBeforeSteps ==
    stream # <<>> =>
        \A i \in 2 .. Len(stages) :
            LET creators == {p \in 1 .. Len(stream) :
                                stream[p].op = "CreatingSets" /\ stream[p].stage = i}
                steps == {p \in 1 .. Len(stream) :
                                stream[p].stage = i /\ stream[p].op \in {"Filter", "Expression"}}
                later == {p \in 1 .. Len(stream) :
                                stream[p].stage > i /\ stream[p].op \in {"Filter", "Expression"}}
                trace == PullTrace(stream, Len(stream))
            IN  /\ stages[i].subqueries_for_sets = {} => creators = {}
                /\ stages[i].subqueries_for_sets # {} =>
                      /\ Cardinality(creators) = 1
                      /\ \A c \in creators :
                            /\ \A p \in steps : p < c
                            /\ \A p \in later : c < p
                      /\ Cardinality(EventsAt(trace, "create_sets", i)) = 1
                      /\ \A c \in EventsAt(trace, "create_sets", i) :
                            \A p \in EventsAt(trace, "process", i) : c < p

\* C20 witness: the stream returned by execute for UPDATE a = a + 1 WHERE b = 1,
\* DELETE WHERE a IN (s1), UPDATE b = 1 WHERE a = 0 was read; the second stage needs no
\* set, the third needs the set of s1.
C20_Witness ==
    /\ ExecuteWasRead
    /\ commands = <<U_inc, D_a, U_set>>
    /\ Len(stages) = 3
    /\ stages[2].subqueries_for_sets = {}
    /\ stages[3].subqueries_for_sets # {}
    /\ \E p \in 1 .. Len(stream) : stream[p].op = "CreatingSets" /\ stream[p].stage = 3
    /\ out_block.status = "ok"

====
